---------------------------- MODULE Spec2Model ----------------------------
(***************************************************************************)
(* Model of scripts/vault-search.py: the indexing engine (build_index),    *)
(* the daemon's request loop, the daemon lifecycle (start_daemon,          *)
(* stop_daemon, daemon_running), the update and search commands, the       *)
(* query engine (do_search) and the scan (get_markdown_files).             *)
(*                                                                         *)
(* The specifications of the module:                                       *)
(*   Spec       the index: files of the vault, the persisted snapshot and  *)
(*              change-tracking metadata, builds run by the command line   *)
(*              and by one daemon inside its request loop;                 *)
(*   SpecRun    Spec without builds that are cut short;                    *)
(*   SpecLife   the lifecycle: concurrent start_daemon invocations, the    *)
(*              forked daemons, stop_daemon, liveness checks, signals;     *)
(*   SpecStart  SpecLife with nothing but start_daemon invocations;        *)
(*   SpecLock   SpecStart with invocations that are killed while waiting;  *)
(*   SpecUpdate the update command of main beside a running daemon;        *)
(*   SpecServe  the request loop of one daemon, with fairness;             *)
(*   SpecSearch do_search on the candidates and scores it is given;        *)
(*   SpecScan   get_markdown_files on a root and a tree under it.          *)
(***************************************************************************)
EXTENDS Integers, FiniteSets, Sequences, TLC

\* ------------------------------------------------------------------------
\* Bounds of the model
\* ------------------------------------------------------------------------

\* changes the user makes to the vault (files, configuration) in one run
MaxEdits == 2

\* accept timeouts (1 s each) that make up the daemon's UPDATE_INTERVAL
IntervalTicks == 2

\* start_daemon invocations, each of which forks at most one daemon
NumStarts == 2

\* the largest limit a search is made with
MaxLimit == 2

\* ------------------------------------------------------------------------
\* The vault and the persisted state
\* ------------------------------------------------------------------------

\* identifiers: paths of markdown files relative to the vault root
Files == {"a.md", "b.md"}

\* the order in which rglob yields the files
FileOrder == <<"a.md", "b.md">>

\* st_mtime and st_size values
Mtimes == {1, 2}

Sizes == {1, 2}

\* a file that does not exist
Absent == [mtime |-> 0, size |-> 0, ok |-> FALSE]

\* a file on disk: its stat and whether read_text(encoding="utf-8") succeeds
FileStates == [mtime : Mtimes, size : Sizes, ok : BOOLEAN] \cup {Absent}

\* no entry under a key of a metadata dict (dict.get returns None)
NoMeta == [mtime |-> 0, size |-> 0]

\* no document under an identifier (extract_document returned None)
NoDoc == [mtime |-> 0, size |-> 0]

\* the empty dict
EmptyMap == [f \in Files |-> NoMeta]

Keys(m) == {f \in Files : m[f] # NoMeta}

\* values of get_vault_path / exists / is_dir
VaultStates == {"ok", "unset", "missing", "notdir"}

Builders == {"cli", "daemon"}

VARIABLES
    disk,        \* disk[f]: the file f of the vault
    vault,       \* the configured document root
    snapshot,    \* INDEX_DIR/embeddings: [exists, idx]
    metaFile,    \* METADATA_FILE: [kind, data]
    store,       \* store[p]: the embeddings object of process p
    build,       \* build[p]: the locals of build_index running in p
    dpc,         \* the daemon's position
    conn,        \* the connection the daemon has accepted
    since,       \* accept timeouts since last_update was set
    edits        \* changes made to the vault so far

idxVars == <<disk, vault, snapshot, metaFile, store, build, dpc, conn,
             since, edits>>

VARIABLES
    pidFile,     \* PID_FILE: [inode, content]
    sockFile,    \* SOCKET_PATH: the daemon whose socket is bound there
    lock,        \* LOCK_FILE: the invocation whose flock holds
    pc,          \* pc[c]: the position of the invocation c
    ret,         \* ret[c]: the path the last daemon_running call of c took
    msg,         \* msg[c]: what the invocation c printed last
    target,      \* the pid stop_daemon read
    dstate,      \* dstate[d]: the position of the daemon process d
    pidFd,       \* pidFd[d]: the inode d holds open for writing its pid
    sig          \* sig[d]: a termination signal is pending for d

lifeVars == <<pidFile, sockFile, lock, pc, ret, msg, target, dstate, pidFd,
              sig>>

VARIABLES
    upc,         \* the position of the update command in main
    calls,       \* the calls the update command has made, in order
    first,       \* what the first update_via_daemon returned
    built,       \* the processes that have run an incremental build for it
    outdated     \* the daemon found running predates the update command

updVars == <<upc, calls, first, built, outdated>>

VARIABLES
    qpc,           \* the position of do_search
    limit,         \* its argument limit
    rerank,        \* its argument rerank
    reranker,      \* its argument reranker is an object, not None
    search_limit,  \* the limit given to embeddings.search
    results,       \* the candidates embeddings.search returned, in order
    scores,        \* scores[i]: the reranker's score of results[i]
    returned       \* what do_search returns

queryVars == <<qpc, limit, rerank, reranker, search_limit, results, scores,
               returned>>

VARIABLES
    spc,           \* the position of get_markdown_files
    vault_root,    \* its argument, an absolute path: the parts of the path
    tree,          \* tree[d]: what is at d/a.md under the root
    pending,       \* the directories rglob has still to yield a path of
    files          \* the directories whose a.md is in the list returned

scanVars == <<spc, vault_root, tree, pending, files>>

\* the variables of the pure functions
pureVars == <<queryVars, scanVars>>

\* the variables of the commands other than the builds and the lifecycle
restVars == <<updVars, pureVars>>

vars == <<idxVars, lifeVars, restVars>>

\* ------------------------------------------------------------------------
\* Change detection and extraction
\* ------------------------------------------------------------------------

\* get_file_metadata: mtime and size of an existing file
get_file_metadata(file) == [mtime |-> file.mtime, size |-> file.size]

file_changed_always(file, old_meta) == TRUE

\* file_changed: True if new, if stat fails, or if mtime or size differ
file_changed(file, old_meta) ==
    IF old_meta = NoMeta THEN TRUE
    ELSE IF file = Absent THEN TRUE
    ELSE file.mtime # old_meta.mtime \/ file.size # old_meta.size

\* load_file_metadata: the dict of the file; {} when the file is missing or
\* holds the legacy format (content hashes)
load_file_metadata ==
    IF metaFile.kind = "v2" THEN metaFile.data ELSE EmptyMap

\* get_markdown_files: the markdown files found under the root
get_markdown_files == {f \in Files : disk[f] # Absent}

\* extract_document: the record of a file that exists and that read_text
\* can read and decode (its text stands for the stat the file had when
\* read), None otherwise
extract_document(file) ==
    IF file # Absent /\ file.ok
    THEN [mtime |-> file.mtime, size |-> file.size]
    ELSE NoDoc

\* ------------------------------------------------------------------------
\* The Index Store
\* ------------------------------------------------------------------------

\* An Index Store is the set of identifiers it holds a document under.

\* embeddings.index: the store holds exactly the documents given
index(documents) == Keys(documents)

\* embeddings.upsert: the documents given replace those of the same id
upsert(idx, documents) == idx \cup Keys(documents)

\* embeddings.delete, once per identifier of ids; deleting an identifier
\* that is not there changes nothing
delete(idx, ids) == idx \ ids


\* ------------------------------------------------------------------------
\* build_index
\* ------------------------------------------------------------------------

Min(a, b) == IF a < b THEN a ELSE b

NoResult == [k |-> "none", changed |-> 0, deleted |-> 0]

\* {"changed": c, "deleted": d}
Counts(c, d) == [k |-> "ok", changed |-> c, deleted |-> d]

\* {"error": msg}
ErrorValue == [k |-> "error", changed |-> 0, deleted |-> 0]

\* an exception leaves build_index
Raised == [k |-> "raised", changed |-> 0, deleted |-> 0]

\* sys.exit(1), or the process was killed
Exited == [k |-> "exit", changed |-> 0, deleted |-> 0]

\* no build_index call is running in the process; res is what the last returned
IdleBuild(res) ==
    [pc |-> "idle", inc |-> FALSE, found |-> {}, todo |-> {},
     old |-> EmptyMap, new |-> EmptyMap, docs |-> EmptyMap,
     unch |-> {}, extracted |-> {}, submitted |-> {}, res |-> res]

\* the file the loop over md_files is at
NextFile(todo) ==
    FileOrder[CHOOSE i \in 1..Len(FileOrder) :
                 /\ FileOrder[i] \in todo
                 /\ \A j \in 1..(i - 1) : FileOrder[j] \notin todo]

NoConn == [req |-> "none", resp |-> 0, body |-> "none", lost |-> FALSE]

\* the positions of the request loop (while True)
ServeStates == {"accept", "recv", "update", "periodic", "send", "close"}

AfterRequestErrorUncaught == "failed"

\* except Exception in the request loop: log, then finally closes the connection
AfterRequestError == "close"

\* the reply of the update command to the result of build_index
update_response(res) ==
    IF res.k = "ok" THEN "status_ok" ELSE "status_error"

\* build_index returns res, or raises, in process p
Finish(p, res) ==
    /\ build' = [build EXCEPT ![p] = [IdleBuild(res) EXCEPT !.pc = "ret"]]
    /\ UNCHANGED <<store, dpc, conn>>

\* lines 789-814: the command-line process ends after its build
main_exit ==
    /\ build["cli"].pc = "ret"
    /\ build' = [build EXCEPT !["cli"] = IdleBuild(NoResult)]
    /\ store' = [store EXCEPT !["cli"] = {}]
    /\ UNCHANGED <<disk, vault, snapshot, metaFile, dpc, conn, since, edits>>
    /\ UNCHANGED <<lifeVars, restVars>>

\* lines 497-520: the request loop goes on with what build_index returned
\* or raised
serve_built ==
    /\ build["daemon"].pc = "ret"
    /\ build' = [build EXCEPT !["daemon"] = IdleBuild(NoResult)]
    /\ LET res == build["daemon"].res
       IN IF dpc = "update"
          THEN IF res.k = "raised"
               THEN /\ dpc' = AfterRequestError
                    /\ UNCHANGED conn
               ELSE /\ dpc' = "send"
                    /\ conn' = [conn EXCEPT !.body = update_response(res)]
          ELSE /\ dpc' = "accept"
               /\ UNCHANGED conn
    /\ \E dt \in {0, 1} : since' = Min(since + dt, IntervalTicks)
    /\ UNCHANGED <<disk, vault, snapshot, metaFile, store, edits>>
    /\ UNCHANGED <<lifeVars, restVars>>

\* The user and the clients act one at a time: a command-line build does not
\* overlap a request to the daemon, its periodic update, its start or its
\* stop. Changes to the vault overlap everything.
CliQuiet == build["cli"].pc = "idle"

DaemonQuiet == dpc \in {"down", "failed", "accept"}

root_error_exits(p) == Exited

\* lines 241-259: without a usable root build_index returns {"error": msg}
\* when it was given the daemon's embeddings, and exits otherwise
root_error(p) == IF p = "daemon" THEN ErrorValue ELSE Exited

\* lines 240-270: the root is checked, the files are listed, the prior
\* metadata is loaded
build_index_begin(p, incremental) ==
    /\ build[p].pc = "idle"
    /\ p = "cli" => DaemonQuiet
    /\ p = "daemon" => (dpc \in {"update", "periodic"} /\ incremental)
    /\ IF vault # "ok"
       THEN Finish(p, root_error(p))
       ELSE /\ build' = [build EXCEPT ![p] =
                   [IdleBuild(NoResult) EXCEPT
                       !.pc = "loop", !.inc = incremental,
                       !.found = get_markdown_files,
                       !.todo = get_markdown_files,
                       !.old = IF incremental THEN load_file_metadata
                               ELSE EmptyMap]]
            /\ UNCHANGED <<store, dpc, conn>>
    /\ UNCHANGED <<disk, vault, snapshot, metaFile, since, edits>>
    /\ UNCHANGED <<lifeVars, restVars>>

\* lines 272-283: one file of the loop is checked and, if changed, extracted
build_index_file(p) ==
    /\ build[p].pc = "loop"
    /\ build[p].todo # {}
    /\ LET b == build[p]
           f == NextFile(b.todo)
           file == disk[f]
           same == /\ b.inc
                   /\ file # Absent
                   /\ b.old[f] # NoMeta
                   /\ get_file_metadata(file) = b.old[f]
           unch == IF same THEN b.unch \cup {f} ELSE b.unch
       IN IF b.inc /\ ~file_changed(file, b.old[f])
          THEN build' = [build EXCEPT ![p] =
                   [b EXCEPT !.new[f] = b.old[f], !.todo = b.todo \ {f},
                             !.unch = unch]]
          ELSE LET doc == extract_document(file)
               IN IF doc # NoDoc
                  THEN build' = [build EXCEPT ![p] =
                           [b EXCEPT !.docs[f] = doc, !.pc = "stat",
                                     !.extracted = b.extracted \cup {f},
                                     !.unch = unch]]
                  ELSE build' = [build EXCEPT ![p] =
                           [b EXCEPT !.todo = b.todo \ {f},
                                     !.extracted = b.extracted \cup {f},
                                     !.unch = unch]]
    /\ UNCHANGED <<disk, vault, snapshot, metaFile, store, dpc, conn, since,
                   edits>>
    /\ UNCHANGED <<lifeVars, restVars>>

\* line 284: the metadata of the file just extracted; stat raises when the
\* file has vanished
build_index_stat(p) ==
    /\ build[p].pc = "stat"
    /\ LET b == build[p]
           f == NextFile(b.todo)
       IN IF disk[f] = Absent
          THEN Finish(p, Raised)
          ELSE /\ build' = [build EXCEPT ![p] =
                      [b EXCEPT !.new[f] = get_file_metadata(disk[f]),
                                !.todo = b.todo \ {f}, !.pc = "loop"]]
               /\ UNCHANGED <<store, dpc, conn>>
    /\ UNCHANGED <<disk, vault, snapshot, metaFile, since, edits>>
    /\ UNCHANGED <<lifeVars, restVars>>

\* line 287: identifiers of the prior metadata that were not found
deleted_files(b) == IF b.inc THEN Keys(b.old) \ b.found ELSE {}

no_changes_never(b) == FALSE

\* line 289: incremental and not documents and not deleted
no_changes(b) == b.inc /\ Keys(b.docs) = {} /\ deleted_files(b) = {}

\* lines 286-313: the short-circuit, or the Index Store is updated
build_index_apply(p) ==
    /\ build[p].pc = "loop"
    /\ build[p].todo = {}
    /\ LET b == build[p]
           deleted == deleted_files(b)
           loaded == IF p = "daemon" THEN store[p]
                     ELSE IF b.inc /\ snapshot.exists THEN snapshot.idx
                     ELSE {}
       IN IF no_changes(b)
          THEN Finish(p, Counts(0, 0))
          ELSE /\ store' = [store EXCEPT ![p] =
                      IF b.inc /\ snapshot.exists
                      THEN delete(upsert(loaded, b.docs), deleted)
                      ELSE index(b.docs)]
               /\ build' = [build EXCEPT ![p] =
                      [b EXCEPT !.pc = "save", !.submitted = Keys(b.docs)]]
               /\ UNCHANGED <<dpc, conn>>
    /\ UNCHANGED <<disk, vault, snapshot, metaFile, since, edits>>
    /\ UNCHANGED <<lifeVars, restVars>>

\* line 316: embeddings.save
build_index_save(p) ==
    /\ build[p].pc = "save"
    /\ snapshot' = [exists |-> TRUE, idx |-> store[p]]
    /\ build' = [build EXCEPT ![p].pc = "savemeta"]
    /\ UNCHANGED <<disk, vault, metaFile, store, dpc, conn, since, edits>>
    /\ UNCHANGED <<lifeVars, restVars>>

\* lines 317-323: save_file_metadata, then the counts are returned
build_index_savemeta(p) ==
    /\ build[p].pc = "savemeta"
    /\ metaFile' = [kind |-> "v2", data |-> build[p].new]
    /\ Finish(p, Counts(Cardinality(Keys(build[p].docs)),
                        Cardinality(deleted_files(build[p]))))
    /\ UNCHANGED <<disk, vault, snapshot, since, edits>>
    /\ UNCHANGED <<lifeVars, restVars>>

\* the command-line process is killed while it builds
cli_killed ==
    /\ build["cli"].pc # "idle"
    /\ build' = [build EXCEPT !["cli"] = IdleBuild(NoResult)]
    /\ store' = [store EXCEPT !["cli"] = {}]
    /\ UNCHANGED <<disk, vault, snapshot, metaFile, dpc, conn, since, edits>>
    /\ UNCHANGED <<lifeVars, restVars>>


\* ------------------------------------------------------------------------
\* The daemon's request loop (one daemon, started on an existing snapshot)
\* ------------------------------------------------------------------------

\* what a client sends: a search, a search without "query", a ping, an
\* update, an unknown command, bytes that are not JSON, JSON that is no object
Requests == {"search", "noquery", "ping", "update", "unknown", "malformed",
             "nonobject"}

\* lines 446-474: the child loads the snapshot and enters the loop; a load
\* that raises ends the process
daemon_start ==
    /\ CliQuiet
    /\ dpc \in {"down", "failed"}
    /\ snapshot.exists
    /\ \E loads \in BOOLEAN :
          IF loads
          THEN /\ store' = [store EXCEPT !["daemon"] = snapshot.idx]
               /\ dpc' = "accept"
          ELSE /\ dpc' = "failed"
               /\ UNCHANGED store
    /\ since' = 0
    /\ UNCHANGED <<disk, vault, snapshot, metaFile, build, conn, edits>>
    /\ UNCHANGED <<lifeVars, restVars>>

\* line 480: a connection is accepted
serve_accept ==
    /\ CliQuiet
    /\ dpc = "accept"
    /\ dpc' = "recv"
    /\ conn' = NoConn
    /\ UNCHANGED <<disk, vault, snapshot, metaFile, store, build, since,
                   edits>>
    /\ UNCHANGED <<lifeVars, restVars>>

\* lines 481-506: the request is read, parsed and dispatched
serve_recv(r) ==
    /\ dpc = "recv"
    /\ \E raises \in BOOLEAN :
          LET answer(body) == /\ dpc' = "send"
                              /\ conn' = [conn EXCEPT !.req = r, !.body = body]
              fails == /\ dpc' = AfterRequestError
                       /\ conn' = [conn EXCEPT !.req = r]
          IN CASE r \in {"malformed", "nonobject", "noquery"} ->
                      raises /\ fails
               [] r = "search" ->
                      IF raises THEN fails ELSE answer("results")
               [] r = "ping" -> ~raises /\ answer("status_ok")
               [] r = "unknown" -> ~raises /\ answer("unknown_command")
               [] r = "update" ->
                      /\ ~raises
                      /\ dpc' = "update"
                      /\ conn' = [conn EXCEPT !.req = r]
    /\ UNCHANGED <<disk, vault, snapshot, metaFile, store, build, since,
                   edits>>
    /\ UNCHANGED <<lifeVars, restVars>>

\* line 508: the response is sent; send raises when the client has gone
serve_send ==
    /\ dpc = "send"
    /\ \E sent \in BOOLEAN :
          IF sent
          THEN /\ conn' = [conn EXCEPT !.resp = conn.resp + 1]
               /\ dpc' = "close"
          ELSE /\ conn' = [conn EXCEPT !.lost = TRUE]
               /\ dpc' = AfterRequestError
    /\ UNCHANGED <<disk, vault, snapshot, metaFile, store, build, since,
                   edits>>
    /\ UNCHANGED <<lifeVars, restVars>>

\* lines 523-528: finally closes the connection, the loop goes on; the
\* request took no time or one timeout's worth
serve_close ==
    /\ dpc = "close"
    /\ dpc' = "accept"
    /\ conn' = NoConn
    /\ \E dt \in {0, 1} : since' = Min(since + dt, IntervalTicks)
    /\ UNCHANGED <<disk, vault, snapshot, metaFile, store, build, edits>>
    /\ UNCHANGED <<lifeVars, restVars>>

update_due_always(elapsed) == TRUE

\* line 512: now - last_update >= UPDATE_INTERVAL
update_due(elapsed) == elapsed >= IntervalTicks

\* lines 509-520: accept timed out; the periodic update when it is due
serve_timeout ==
    /\ CliQuiet
    /\ dpc = "accept"
    /\ LET now == Min(since + 1, IntervalTicks)
       IN IF update_due(now)
          THEN /\ since' = 0
               /\ dpc' = "periodic"
          ELSE /\ since' = now
               /\ UNCHANGED dpc
    /\ UNCHANGED <<disk, vault, snapshot, metaFile, store, build, conn,
                   edits>>
    /\ UNCHANGED <<lifeVars, restVars>>

\* lines 461-468: a termination signal; cleanup ends the process wherever
\* the loop is
daemon_signal ==
    /\ CliQuiet
    /\ dpc \in ServeStates
    /\ dpc' = "down"
    /\ conn' = NoConn
    /\ since' = 0
    /\ store' = [store EXCEPT !["daemon"] = {}]
    /\ build' = [build EXCEPT !["daemon"] = IdleBuild(NoResult)]
    /\ UNCHANGED <<disk, vault, snapshot, metaFile, edits>>
    /\ UNCHANGED <<lifeVars, restVars>>

\* ------------------------------------------------------------------------
\* The user
\* ------------------------------------------------------------------------

\* what one change makes of a file: it is removed, created, touched
\* (mtime), rewritten to another length within the same mtime (size), or
\* rewritten with bytes that do or do not decode (ok, mtime)
EditsOf(file) ==
    IF file = Absent
    THEN {[mtime |-> m, size |-> 1, ok |-> TRUE] : m \in Mtimes}
    ELSE {Absent}
         \cup {[file EXCEPT !.mtime = m] : m \in Mtimes \ {file.mtime}}
         \cup {[file EXCEPT !.size = z] : z \in Sizes \ {file.size}}
         \cup {[file EXCEPT !.ok = ~file.ok, !.mtime = m] :
                    m \in Mtimes \ {file.mtime}}

\* a file is created, rewritten, touched or removed
edit_file(f, s) ==
    /\ edits < MaxEdits
    /\ s \in EditsOf(disk[f])
    /\ disk' = [disk EXCEPT ![f] = s]
    /\ edits' = edits + 1
    /\ UNCHANGED <<vault, snapshot, metaFile, store, build, dpc, conn, since>>
    /\ UNCHANGED <<lifeVars, restVars>>

\* the root is unset, removed or replaced by a file, or put right again
set_vault(v) ==
    /\ edits < MaxEdits
    /\ v # vault
    /\ "ok" \in {v, vault}
    /\ vault' = v
    /\ edits' = edits + 1
    /\ UNCHANGED <<disk, snapshot, metaFile, store, build, dpc, conn, since>>
    /\ UNCHANGED <<lifeVars, restVars>>

\* ------------------------------------------------------------------------
\* The daemon lifecycle: files, processes
\* ------------------------------------------------------------------------

\* no process, no file
NoPid == 0

\* the invocations of start_daemon; the daemon that invocation s forks has
\* the pid s
Starters == 1..NumStarts

Pids == Starters

\* the invocation of stop_daemon
Stopper == NumStarts + 1

\* the invocation of search
Client == NumStarts + 2

Callers == Starters \cup {Stopper, Client}

\* PID_FILE does not exist
NoFile == [inode |-> NoPid, content |-> NoPid]

ChildStepsBindFirst ==
    <<"load", "unlink", "bind", "pidopen", "pidwrite", "handlers", "accept">>

\* the order of the child's steps from the fork to the request loop
ChildSteps ==
    <<"pidopen", "pidwrite", "load", "unlink", "bind", "handlers", "accept">>

\* the step that follows step st
After(st) ==
    ChildSteps[1 + CHOOSE i \in 1..(Len(ChildSteps) - 1) : ChildSteps[i] = st]

\* the daemon has not installed its signal handlers yet
Starting(d) ==
    \E i \in 1..(Len(ChildSteps) - 1) : dstate[d] = ChildSteps[i]

\* the daemon is in the request loop: waiting in accept, or at a request
Ready(d) == dstate[d] \in {"accept", "busy"}

\* the process d runs
Alive(d) == d \in Pids /\ dstate[d] \notin {"none", "dead"}

\* the process d has ended and its parent, the start_daemon invocation d,
\* which never waits for it, has not: the pid stays in the process table
Zombie(d) == d \in Pids /\ dstate[d] = "dead" /\ pc[d] # "done"

\* os.kill(d, sig) finds a process: one that runs, or a zombie
Exists(d) == Alive(d) \/ Zombie(d)

\* the daemon has bound SOCKET_PATH and listens
Listens(d) ==
    \/ Ready(d)
    \/ \E i, j \in 1..Len(ChildSteps) :
          /\ ChildSteps[i] = "bind"
          /\ ChildSteps[j] = dstate[d]
          /\ i < j

\* sock.connect(SOCKET_PATH) succeeds
Connectable == sockFile # NoPid /\ Listens(sockFile)

\* ------------------------------------------------------------------------
\* daemon_running
\* ------------------------------------------------------------------------

\* the path a call takes: no PID_FILE; os.kill(pid, 0) succeeds; the
\* content is no number or os.kill finds no process
daemon_running_path ==
    IF pidFile = NoFile THEN "absent"
    ELSE IF Exists(pidFile.content) THEN "alive"
    ELSE "stale"

\* SOCKET_PATH after the call
daemon_running_sock ==
    IF daemon_running_path = "stale" THEN NoPid ELSE sockFile

\* PID_FILE after the call
daemon_running_pid ==
    IF daemon_running_path = "stale" THEN NoFile ELSE pidFile

\* the invocation c calls daemon_running; it returns True on the path "alive"
daemon_running(c) ==
    /\ ret' = [ret EXCEPT ![c] = daemon_running_path]
    /\ pidFile' = daemon_running_pid
    /\ sockFile' = daemon_running_sock

\* the invocation c ends printing m
Ends(c, m) ==
    /\ pc' = [pc EXCEPT ![c] = "done"]
    /\ msg' = [msg EXCEPT ![c] = m]

Goes(c, to) ==
    /\ pc' = [pc EXCEPT ![c] = to]
    /\ UNCHANGED msg

\* ------------------------------------------------------------------------
\* start_daemon: the parent
\* ------------------------------------------------------------------------

\* lines 399-401
start_check(s) ==
    /\ pc[s] = "check"
    /\ daemon_running(s)
    /\ IF daemon_running_path = "alive"
       THEN Ends(s, "Daemon already running")
       ELSE Goes(s, "index")
    /\ UNCHANGED <<lock, target, dstate, pidFd, sig>>
    /\ UNCHANGED <<idxVars, restVars>>

\* lines 403-406
start_index(s) ==
    /\ pc[s] = "index"
    /\ IF snapshot.exists
       THEN Goes(s, "lock")
       ELSE Ends(s, "Error: Index not found")
    /\ UNCHANGED <<pidFile, sockFile, lock, ret, target, dstate, pidFd, sig>>
    /\ UNCHANGED <<idxVars, restVars>>

\* the invocation s holds the descriptor it opened on LOCK_FILE
InSequence(s) == pc[s] \in {"fork", "sleep"}

\* the flock on LOCK_FILE holds: it was taken through a descriptor of
\* invocation lock, was not released, and the invocation or the child that
\* inherited the descriptor at the fork still has it open
LockHeld ==
    /\ lock # NoPid
    /\ InSequence(lock) \/ Alive(lock)

\* lines 408-416: the non-blocking flock
start_lock(s) ==
    /\ pc[s] = "lock"
    /\ IF ~LockHeld
       THEN /\ lock' = s
            /\ Goes(s, "fork")
       ELSE /\ Ends(s, "Another process is starting the daemon")
            /\ UNCHANGED lock
    /\ UNCHANGED <<pidFile, sockFile, ret, target, dstate, pidFd, sig>>
    /\ UNCHANGED <<idxVars, restVars>>

\* line 419: the child s exists and is at its first step
start_fork(s) ==
    /\ pc[s] = "fork"
    /\ dstate' = [dstate EXCEPT ![s] = ChildSteps[1]]
    /\ Goes(s, "sleep")
    /\ UNCHANGED <<pidFile, sockFile, lock, ret, target, pidFd, sig>>
    /\ UNCHANGED <<idxVars, restVars>>

\* lines 422-424: the parent has slept two seconds and releases the lock
start_unlock(s) ==
    /\ pc[s] = "sleep"
    /\ lock' = NoPid
    /\ Goes(s, "confirm")
    /\ UNCHANGED <<pidFile, sockFile, ret, target, dstate, pidFd, sig>>
    /\ UNCHANGED <<idxVars, restVars>>

\* lines 425-429
start_confirm(s) ==
    /\ pc[s] = "confirm"
    /\ daemon_running(s)
    /\ IF daemon_running_path = "alive"
       THEN Ends(s, "Daemon started")
       ELSE Ends(s, "Daemon failed to start")
    /\ UNCHANGED <<lock, target, dstate, pidFd, sig>>
    /\ UNCHANGED <<idxVars, restVars>>

\* lines 419-424: the invocation is killed while it holds the lock; its
\* descriptor is closed, not unlocked
parent_killed(s) ==
    /\ InSequence(s)
    /\ Ends(s, "Killed")
    /\ UNCHANGED <<pidFile, sockFile, lock, ret, target, dstate, pidFd, sig>>
    /\ UNCHANGED <<idxVars, restVars>>

\* ------------------------------------------------------------------------
\* start_daemon: the child
\* ------------------------------------------------------------------------

\* the daemon d goes on to its next step
Steps(d, st) == dstate' = [dstate EXCEPT ![d] = After(st)]

\* the daemon d ends without cleanup: an uncaught exception, a signal with
\* its default action
Dies(d) ==
    /\ dstate' = [dstate EXCEPT ![d] = "dead"]
    /\ sig' = [sig EXCEPT ![d] = FALSE]
    /\ pidFd' = [pidFd EXCEPT ![d] = NoPid]

\* line 442, write_text opens PID_FILE for writing: the file is created
\* empty, or the file there is truncated
child_open_pid(d) ==
    /\ dstate[d] = "pidopen"
    /\ LET inode == IF pidFile = NoFile THEN d ELSE pidFile.inode
       IN /\ pidFile' = [inode |-> inode, content |-> NoPid]
          /\ pidFd' = [pidFd EXCEPT ![d] = inode]
    /\ Steps(d, "pidopen")
    /\ UNCHANGED <<sockFile, lock, pc, ret, msg, target, sig>>
    /\ UNCHANGED <<idxVars, restVars>>

\* line 442, write_text writes the pid into the file it opened, which may
\* have been unlinked since
child_write_pid(d) ==
    /\ dstate[d] = "pidwrite"
    /\ pidFile' = IF pidFile # NoFile /\ pidFile.inode = pidFd[d]
                  THEN [pidFile EXCEPT !.content = d]
                  ELSE pidFile
    /\ pidFd' = [pidFd EXCEPT ![d] = NoPid]
    /\ Steps(d, "pidwrite")
    /\ UNCHANGED <<sockFile, lock, pc, ret, msg, target, sig>>
    /\ UNCHANGED <<idxVars, restVars>>

\* lines 447-449: the models and the snapshot are loaded; an exception ends
\* the process
child_load(d, loads) ==
    /\ dstate[d] = "load"
    /\ IF loads
       THEN /\ Steps(d, "load")
            /\ UNCHANGED <<sig, pidFd>>
       ELSE Dies(d)
    /\ UNCHANGED <<pidFile, sockFile, lock, pc, ret, msg, target>>
    /\ UNCHANGED <<idxVars, restVars>>

\* line 454
child_unlink_sock(d) ==
    /\ dstate[d] = "unlink"
    /\ sockFile' = NoPid
    /\ Steps(d, "unlink")
    /\ UNCHANGED <<pidFile, lock, pc, ret, msg, target, pidFd, sig>>
    /\ UNCHANGED <<idxVars, restVars>>

\* lines 455-459: bind raises when the path exists again
child_bind(d) ==
    /\ dstate[d] = "bind"
    /\ IF sockFile = NoPid
       THEN /\ sockFile' = d
            /\ Steps(d, "bind")
            /\ UNCHANGED <<sig, pidFd>>
       ELSE /\ Dies(d)
            /\ UNCHANGED sockFile
    /\ UNCHANGED <<pidFile, lock, pc, ret, msg, target>>
    /\ UNCHANGED <<idxVars, restVars>>

\* lines 467-474: the handlers are installed, the loop is entered
child_handlers(d) ==
    /\ dstate[d] = "handlers"
    /\ Steps(d, "handlers")
    /\ UNCHANGED <<pidFile, sockFile, lock, pc, ret, msg, target, pidFd, sig>>
    /\ UNCHANGED <<idxVars, restVars>>

\* lines 480-508: a connection is accepted and its request worked at
daemon_accept(d) ==
    /\ dstate[d] = "accept"
    /\ dstate' = [dstate EXCEPT ![d] = "busy"]
    /\ UNCHANGED <<pidFile, sockFile, lock, pc, ret, msg, target, pidFd, sig>>
    /\ UNCHANGED <<idxVars, restVars>>

\* lines 508-528: the request is done with
daemon_served(d) ==
    /\ dstate[d] = "busy"
    /\ ~sig[d]
    /\ dstate' = [dstate EXCEPT ![d] = "accept"]
    /\ UNCHANGED <<pidFile, sockFile, lock, pc, ret, msg, target, pidFd, sig>>
    /\ UNCHANGED <<idxVars, restVars>>

\* os.kill(d, SIGTERM) on a process: before the handlers are installed the
\* process ends; a daemon waiting in accept is interrupted and runs its
\* handler; at a request the signal waits until the interpreter runs the
\* handler
Signalled(d) ==
    IF Starting(d) THEN Dies(d)
    ELSE IF dstate[d] = "accept"
    THEN /\ dstate' = [dstate EXCEPT ![d] = "cleanup"]
         /\ UNCHANGED <<sig, pidFd>>
    ELSE /\ sig' = [sig EXCEPT ![d] = (dstate[d] = "busy")]
         /\ UNCHANGED <<dstate, pidFd>>

\* line 461: the interpreter runs the handler of the pending signal
cleanup_begin(d) ==
    /\ dstate[d] = "busy"
    /\ sig[d]
    /\ dstate' = [dstate EXCEPT ![d] = "cleanup"]
    /\ sig' = [sig EXCEPT ![d] = FALSE]
    /\ UNCHANGED <<pidFile, sockFile, lock, pc, ret, msg, target, pidFd>>
    /\ UNCHANGED <<idxVars, restVars>>

\* lines 462-463: cleanup unlinks SOCKET_PATH
cleanup_unlink_sock(d) ==
    /\ dstate[d] = "cleanup"
    /\ sockFile' = NoPid
    /\ dstate' = [dstate EXCEPT ![d] = "cleanup_pid"]
    /\ UNCHANGED <<pidFile, lock, pc, ret, msg, target, pidFd, sig>>
    /\ UNCHANGED <<idxVars, restVars>>

\* lines 464-465: cleanup unlinks PID_FILE and exits
cleanup_unlink_pid(d) ==
    /\ dstate[d] = "cleanup_pid"
    /\ pidFile' = NoFile
    /\ Dies(d)
    /\ UNCHANGED <<sockFile, lock, pc, ret, msg, target>>
    /\ UNCHANGED <<idxVars, restVars>>

\* the process is killed or crashes
daemon_crash(d) ==
    /\ Alive(d)
    /\ Dies(d)
    /\ UNCHANGED <<pidFile, sockFile, lock, pc, ret, msg, target>>
    /\ UNCHANGED <<idxVars, restVars>>

\* a termination signal that stop_daemon did not send
signal_daemon(d) ==
    /\ Starting(d) \/ Ready(d)
    /\ ~sig[d]
    /\ Signalled(d)
    /\ UNCHANGED <<pidFile, sockFile, lock, pc, ret, msg, target>>
    /\ UNCHANGED <<idxVars, restVars>>

\* ------------------------------------------------------------------------
\* stop_daemon, search
\* ------------------------------------------------------------------------

\* lines 533-535
stop_check ==
    /\ pc[Stopper] = "check"
    /\ daemon_running(Stopper)
    /\ IF daemon_running_path = "alive"
       THEN Goes(Stopper, "read")
       ELSE Ends(Stopper, "Daemon not running")
    /\ UNCHANGED <<lock, target, dstate, pidFd, sig>>
    /\ UNCHANGED <<idxVars, restVars>>

\* line 537: read_text and int raise when the file is gone or empty
stop_read ==
    /\ pc[Stopper] = "read"
    /\ IF pidFile.content = NoPid
       THEN /\ Ends(Stopper, "Traceback")
            /\ UNCHANGED target
       ELSE /\ target' = pidFile.content
            /\ Goes(Stopper, "kill")
    /\ UNCHANGED <<pidFile, sockFile, lock, ret, dstate, pidFd, sig>>
    /\ UNCHANGED <<idxVars, restVars>>

\* line 538: os.kill raises when the process is gone; a zombie takes the
\* signal and nothing happens
stop_kill ==
    /\ pc[Stopper] = "kill"
    /\ IF Exists(target)
       THEN /\ IF Alive(target)
               THEN Signalled(target)
               ELSE UNCHANGED <<dstate, pidFd, sig>>
            /\ Goes(Stopper, "sleep")
       ELSE /\ Ends(Stopper, "Traceback")
            /\ UNCHANGED <<dstate, pidFd, sig>>
    /\ UNCHANGED <<pidFile, sockFile, lock, ret, target>>
    /\ UNCHANGED <<idxVars, restVars>>

\* lines 539-540: half a second later PID_FILE is unlinked
stop_unlink_pid ==
    /\ pc[Stopper] = "sleep"
    /\ pidFile' = NoFile
    /\ Goes(Stopper, "unlink")
    /\ UNCHANGED <<sockFile, lock, ret, target, dstate, pidFd, sig>>
    /\ UNCHANGED <<idxVars, restVars>>

\* lines 541-542
stop_unlink_sock ==
    /\ pc[Stopper] = "unlink"
    /\ sockFile' = NoPid
    /\ Ends(Stopper, "Daemon stopped")
    /\ UNCHANGED <<pidFile, lock, ret, target, dstate, pidFd, sig>>
    /\ UNCHANGED <<idxVars, restVars>>

\* lines 589-594 and 385-386: search on an existing snapshot asks for the
\* daemon; PID_FILE.exists()
search_check ==
    /\ pc[Client] = "check"
    /\ snapshot.exists
    /\ IF pidFile = NoFile
       THEN /\ daemon_running(Client)
            /\ Ends(Client, "direct")
       ELSE /\ Goes(Client, "pidread")
            /\ UNCHANGED <<pidFile, sockFile, ret>>
    /\ UNCHANGED <<lock, target, dstate, pidFd, sig>>
    /\ UNCHANGED <<idxVars, restVars>>

\* lines 387-394: PID_FILE is read; read_text raises FileNotFoundError,
\* which nothing catches, when the file has been unlinked since exists()
search_pid ==
    /\ pc[Client] = "pidread"
    /\ IF pidFile = NoFile
       THEN /\ ret' = [ret EXCEPT ![Client] = "raised"]
            /\ Ends(Client, "Traceback")
            /\ UNCHANGED <<pidFile, sockFile>>
       ELSE /\ daemon_running(Client)
            /\ IF daemon_running_path = "alive"
               THEN Goes(Client, "query")
               ELSE Ends(Client, "direct")
    /\ UNCHANGED <<lock, target, dstate, pidFd, sig>>
    /\ UNCHANGED <<idxVars, restVars>>

\* lines 596-608: the daemon is queried; without a connection, or without
\* a response that parses in time, the search is made in the calling process
query_daemon ==
    /\ pc[Client] = "query"
    /\ \E answered \in BOOLEAN :
          IF Connectable /\ answered
          THEN Ends(Client, "daemon")
          ELSE Ends(Client, "direct")
    /\ UNCHANGED <<pidFile, sockFile, lock, ret, target, dstate, pidFd, sig>>
    /\ UNCHANGED <<idxVars, restVars>>

\* no update command has been given
UpdateRest ==
    /\ upc = "none"
    /\ calls = <<>>
    /\ first = "unsent"
    /\ built = {}
    /\ outdated = FALSE

\* no search is being made
QueryRest ==
    /\ qpc = "none"
    /\ limit = 0
    /\ rerank = FALSE
    /\ reranker = FALSE
    /\ search_limit = 0
    /\ results = <<>>
    /\ scores = <<>>
    /\ returned = <<>>

\* no scan is being made
ScanRest ==
    /\ spc = "none"
    /\ vault_root = <<>>
    /\ tree = <<>>
    /\ pending = {}
    /\ files = {}

PureRest == QueryRest /\ ScanRest

\* the lifecycle is at rest: no file, no daemon, every invocation about to
\* begin
LifeRest ==
    /\ pidFile = NoFile
    /\ sockFile = NoPid
    /\ lock = NoPid
    /\ pc = [c \in Callers |-> "check"]
    /\ ret = [c \in Callers |-> "none"]
    /\ msg = [c \in Callers |-> "none"]
    /\ target = NoPid
    /\ dstate = [d \in Pids |-> "none"]
    /\ pidFd = [d \in Pids |-> NoPid]
    /\ sig = [d \in Pids |-> FALSE]

\* ------------------------------------------------------------------------
\* Spec: the index
\* ------------------------------------------------------------------------

\* a file as first written
NewFile == [mtime |-> 1, size |-> 1, ok |-> TRUE]

\* nothing has been built yet
FreshInstall ==
    /\ snapshot = [exists |-> FALSE, idx |-> {}]
    /\ metaFile = [kind |-> "missing", data |-> EmptyMap]

Init ==
    /\ disk \in [Files -> {Absent, NewFile}]
    /\ vault = "ok"
    /\ FreshInstall
    /\ store = [p \in Builders |-> {}]
    /\ build = [p \in Builders |-> IdleBuild(NoResult)]
    /\ dpc = "down"
    /\ conn = NoConn
    /\ since = 0
    /\ edits = 0
    /\ LifeRest
    /\ UpdateRest
    /\ PureRest

\* the steps of the builds, of the request loop and of the user
Run ==
    \/ \E incremental \in BOOLEAN : build_index_begin("cli", incremental)
    \/ build_index_begin("daemon", TRUE)
    \/ \E p \in Builders : build_index_file(p)
    \/ \E p \in Builders : build_index_stat(p)
    \/ \E p \in Builders : build_index_apply(p)
    \/ \E p \in Builders : build_index_save(p)
    \/ \E p \in Builders : build_index_savemeta(p)
    \/ main_exit
    \/ serve_built
    \/ daemon_start
    \/ serve_accept
    \/ \E r \in Requests : serve_recv(r)
    \/ serve_send
    \/ serve_close
    \/ serve_timeout
    \/ \E f \in Files, s \in FileStates : edit_file(f, s)
    \/ \E v \in VaultStates : set_vault(v)

Next ==
    \/ Run
    \/ cli_killed
    \/ daemon_signal

Spec == Init /\ [][Next]_vars

\* SpecRun: the index when no build is cut short (the daemon is signalled
\* only between builds, the command line is not killed)
NextRun ==
    \/ Run
    \/ (build["daemon"].pc = "idle" /\ daemon_signal)

SpecRun == Init /\ [][NextRun]_vars

\* ------------------------------------------------------------------------
\* SpecLife, SpecStart: the lifecycle
\* ------------------------------------------------------------------------

\* all files are indexed
Built ==
    /\ snapshot = [exists |-> TRUE, idx |-> Files]
    /\ metaFile = [kind |-> "v2",
                   data |-> [f \in Files |-> get_file_metadata(NewFile)]]

\* the index is at rest
IndexRest ==
    /\ disk = [f \in Files |-> NewFile]
    /\ vault = "ok"
    /\ store = [p \in Builders |-> {}]
    /\ build = [p \in Builders |-> IdleBuild(NoResult)]
    /\ dpc = "down"
    /\ conn = NoConn
    /\ since = 0
    /\ edits = 0

InitLife ==
    /\ IndexRest
    /\ FreshInstall \/ Built
    /\ LifeRest
    /\ UpdateRest
    /\ PureRest

InitStart ==
    /\ IndexRest
    /\ Built
    /\ LifeRest
    /\ UpdateRest
    /\ PureRest

\* the steps of start_daemon's parent
Parent ==
    \/ \E s \in Starters : start_check(s)
    \/ \E s \in Starters : start_index(s)
    \/ \E s \in Starters : start_lock(s)
    \/ \E s \in Starters : start_fork(s)
    \/ \E s \in Starters : start_unlock(s)
    \/ \E s \in Starters : start_confirm(s)

\* the steps of a daemon that nothing stops
Child ==
    \/ \E d \in Pids : child_open_pid(d)
    \/ \E d \in Pids : child_write_pid(d)
    \/ \E d \in Pids : child_unlink_sock(d)
    \/ \E d \in Pids : child_bind(d)
    \/ \E d \in Pids : child_handlers(d)
    \/ \E d \in Pids : daemon_accept(d)
    \/ \E d \in Pids : daemon_served(d)

NextLife ==
    \/ Parent
    \/ Child
    \/ \E d \in Pids, loads \in BOOLEAN : child_load(d, loads)
    \/ \E d \in Pids : cleanup_begin(d)
    \/ \E d \in Pids : cleanup_unlink_sock(d)
    \/ \E d \in Pids : cleanup_unlink_pid(d)
    \/ \E d \in Pids : daemon_crash(d)
    \/ \E d \in Pids : signal_daemon(d)
    \/ stop_check
    \/ stop_read
    \/ stop_kill
    \/ stop_unlink_pid
    \/ stop_unlink_sock
    \/ search_check
    \/ search_pid
    \/ query_daemon

SpecLife == InitLife /\ [][NextLife]_vars

\* SpecStart: start_daemon invocations on an existing snapshot and the
\* daemons they fork; no load fails, nothing is stopped, signalled or killed
NextStart ==
    \/ Parent
    \/ Child
    \/ \E d \in Pids : child_load(d, TRUE)

SpecStart == InitStart /\ [][NextStart]_vars

\* SpecLock: SpecStart with invocations that can be killed while they wait
\* for their child
NextLock ==
    \/ NextStart
    \/ \E s \in Starters : parent_killed(s)

SpecLock == InitStart /\ [][NextLock]_vars

\* ------------------------------------------------------------------------
\* SpecUpdate: the update command of main
\* ------------------------------------------------------------------------

\* the start_daemon invocation the update command makes
Restarter == 1

\* the daemon that runs when the update command is given
OldDaemon == NumStarts

\* what update_via_daemon can return now: None when connect, send, recv or
\* json.loads raises; the reply of a daemon that predates the update command;
\* the reply of this daemon to the result of its build
Answers ==
    IF ~Connectable THEN {"none"}
    ELSE IF sockFile = OldDaemon /\ outdated THEN {"unknown", "none"}
    ELSE {"ok", "error", "none"}

\* lines 568-584: update_via_daemon returns r
update_via_daemon(r) ==
    /\ r \in Answers
    /\ calls' = Append(calls, "update_via_daemon")
    /\ built' = IF r = "ok" THEN built \cup {"daemon"} ELSE built

\* line 793: if daemon_running()
main_update_check ==
    /\ upc = "check"
    /\ pidFile' = daemon_running_pid
    /\ sockFile' = daemon_running_sock
    /\ upc' = IF daemon_running_path = "alive" THEN "update" ELSE "build"
    /\ UNCHANGED <<calls, first, built, outdated>>
    /\ UNCHANGED <<lock, pc, ret, msg, target, dstate, pidFd, sig>>
    /\ UNCHANGED <<idxVars, pureVars>>

\* lines 795-799: the update is sent; its result decides what follows
main_update_first(r) ==
    /\ upc = "update"
    /\ update_via_daemon(r)
    /\ first' = r
    /\ upc' = CASE r = "ok" -> "done"
               [] r = "unknown" -> "stop"
               [] OTHER -> "build"
    /\ UNCHANGED outdated
    /\ UNCHANGED <<lifeVars, idxVars, pureVars>>

\* lines 800-801: stop_daemon is called
main_update_stop ==
    /\ upc = "stop"
    /\ calls' = Append(calls, "stop_daemon")
    /\ pc' = [pc EXCEPT ![Stopper] = "check"]
    /\ upc' = "stopping"
    /\ UNCHANGED <<first, built, outdated>>
    /\ UNCHANGED <<pidFile, sockFile, lock, ret, msg, target, dstate, pidFd,
                   sig>>
    /\ UNCHANGED <<idxVars, pureVars>>

\* lines 801-805: stop_daemon has returned and start_daemon is called; an
\* exception that leaves stop_daemon leaves main
main_update_start ==
    /\ upc = "stopping"
    /\ pc[Stopper] = "done"
    /\ IF msg[Stopper] = "Traceback"
       THEN /\ upc' = "raised"
            /\ UNCHANGED <<calls, pc>>
       ELSE /\ calls' = Append(calls, "start_daemon")
            /\ pc' = [pc EXCEPT ![Restarter] = "check"]
            /\ upc' = "starting"
    /\ UNCHANGED <<first, built, outdated>>
    /\ UNCHANGED <<pidFile, sockFile, lock, ret, msg, target, dstate, pidFd,
                   sig>>
    /\ UNCHANGED <<idxVars, pureVars>>

\* line 806: start_daemon has returned or exited; if daemon_running()
main_update_recheck ==
    /\ upc = "starting"
    /\ pc[Restarter] = "done"
    /\ pidFile' = daemon_running_pid
    /\ sockFile' = daemon_running_sock
    /\ upc' = IF daemon_running_path = "alive" THEN "retry" ELSE "build"
    /\ UNCHANGED <<calls, first, built, outdated>>
    /\ UNCHANGED <<lock, pc, ret, msg, target, dstate, pidFd, sig>>
    /\ UNCHANGED <<idxVars, pureVars>>

\* lines 807-810: the update is sent again
main_update_retry(r) ==
    /\ upc = "retry"
    /\ update_via_daemon(r)
    /\ upc' = IF r = "ok" THEN "done" ELSE "build"
    /\ UNCHANGED <<first, outdated>>
    /\ UNCHANGED <<lifeVars, idxVars, pureVars>>

\* lines 811-814: build_index(incremental=True) in the calling process
main_update_build ==
    /\ upc = "build"
    /\ calls' = Append(calls, "build_index")
    /\ built' = built \cup {"caller"}
    /\ upc' = "done"
    /\ UNCHANGED <<first, outdated>>
    /\ UNCHANGED <<lifeVars, idxVars, pureVars>>

\* the update command is given while a daemon, of this or of an earlier
\* version, is in its request loop
InitUpdate ==
    /\ IndexRest
    /\ Built
    /\ pidFile = [inode |-> OldDaemon, content |-> OldDaemon]
    /\ sockFile = OldDaemon
    /\ lock = NoPid
    /\ pc = [c \in Callers |->
                IF c \in {Stopper, Restarter} THEN "wait" ELSE "done"]
    /\ ret = [c \in Callers |-> "none"]
    /\ msg = [c \in Callers |-> "none"]
    /\ target = NoPid
    /\ dstate = [d \in Pids |-> IF d = OldDaemon THEN "accept" ELSE "none"]
    /\ pidFd = [d \in Pids |-> NoPid]
    /\ sig = [d \in Pids |-> FALSE]
    /\ upc = "check"
    /\ calls = <<>>
    /\ first = "unsent"
    /\ built = {}
    /\ outdated \in BOOLEAN
    /\ PureRest

Results == {"ok", "error", "unknown", "none"}

NextUpdate ==
    \/ main_update_check
    \/ \E r \in Results : main_update_first(r)
    \/ main_update_stop
    \/ main_update_start
    \/ main_update_recheck
    \/ \E r \in Results : main_update_retry(r)
    \/ main_update_build
    \/ stop_check
    \/ stop_read
    \/ stop_kill
    \/ stop_unlink_pid
    \/ stop_unlink_sock
    \/ Parent
    \/ Child
    \/ \E d \in Pids, loads \in BOOLEAN : child_load(d, loads)
    \/ \E d \in Pids : cleanup_begin(d)
    \/ \E d \in Pids : cleanup_unlink_sock(d)
    \/ \E d \in Pids : cleanup_unlink_pid(d)
    \/ \E d \in Pids : daemon_crash(d)
    \/ \E d \in Pids : signal_daemon(d)

SpecUpdate == InitUpdate /\ [][NextUpdate]_vars

\* ------------------------------------------------------------------------
\* SpecSearch: do_search
\* ------------------------------------------------------------------------

\* the values of a reranker score
Scores == 1..3

\* the candidates are named by their place in the retrieval order
Candidates(n) == [i \in 1..n |-> i]

\* results[:k]
Slice(seq, k) == SubSeq(seq, 1, Min(k, Len(seq)))

\* zip(results, scores)
Zip(rs, sc) == [i \in 1..Len(rs) |-> [r |-> rs[i], score |-> sc[i]]]

\* seq without its element at i
Without(seq, i) == SubSeq(seq, 1, i - 1) \o SubSeq(seq, i + 1, Len(seq))

last_max(pairs) ==
    CHOOSE i \in 1..Len(pairs) :
        /\ \A j \in 1..Len(pairs) : pairs[j].score <= pairs[i].score
        /\ \A j \in (i + 1)..Len(pairs) : pairs[j].score < pairs[i].score

\* the place of the pair that a stable sort by descending score puts first:
\* the earliest of those with the highest score
first_max(pairs) ==
    CHOOSE i \in 1..Len(pairs) :
        /\ \A j \in 1..Len(pairs) : pairs[j].score <= pairs[i].score
        /\ \A j \in 1..(i - 1) : pairs[j].score < pairs[i].score

RECURSIVE sorted(_)
\* line 341: sorted(pairs, key=lambda x: x[1], reverse=True), a stable sort
sorted(pairs) ==
    IF pairs = <<>> THEN <<>>
    ELSE LET i == first_max(pairs)
         IN <<pairs[i]>> \o sorted(Without(pairs, i))

\* lines 332-336: the candidates are fetched; n of them are found
do_search_fetch(n) ==
    /\ qpc = "call"
    /\ LET sl == IF rerank THEN limit * 2 ELSE limit
       IN /\ n <= sl
          /\ search_limit' = sl
    /\ results' = Candidates(n)
    /\ IF n = 0
       THEN /\ qpc' = "done"
            /\ returned' = <<>>
       ELSE /\ qpc' = "fetched"
            /\ UNCHANGED returned
    /\ UNCHANGED <<limit, rerank, reranker, scores>>
    /\ UNCHANGED <<idxVars, lifeVars, updVars, scanVars>>

\* lines 338-342: the candidates are scored, sorted and cut
do_search_rerank(sc) ==
    /\ qpc = "fetched"
    /\ rerank /\ Len(results) > 1 /\ reranker
    /\ sc \in [1..Len(results) -> Scores]
    /\ scores' = sc
    /\ LET ranked == sorted(Zip(results, sc))
       IN returned' = [i \in 1..Min(limit, Len(ranked)) |-> ranked[i].r]
    /\ qpc' = "done"
    /\ UNCHANGED <<limit, rerank, reranker, search_limit, results>>
    /\ UNCHANGED <<idxVars, lifeVars, updVars, scanVars>>

\* lines 343-344: the candidates are cut
do_search_cut ==
    /\ qpc = "fetched"
    /\ ~(rerank /\ Len(results) > 1 /\ reranker)
    /\ returned' = Slice(results, limit)
    /\ qpc' = "done"
    /\ UNCHANGED <<limit, rerank, reranker, search_limit, results, scores>>
    /\ UNCHANGED <<idxVars, lifeVars, updVars, scanVars>>

\* do_search is called: by the daemon, whose reranker is loaded, or by
\* search, which loads the reranker when rerank is set
InitSearch ==
    /\ IndexRest
    /\ Built
    /\ LifeRest
    /\ UpdateRest
    /\ ScanRest
    /\ qpc = "call"
    /\ limit \in 0..MaxLimit
    /\ rerank \in BOOLEAN
    /\ reranker \in BOOLEAN
    /\ rerank => reranker
    /\ search_limit = 0
    /\ results = <<>>
    /\ scores = <<>>
    /\ returned = <<>>

NextSearch ==
    \/ \E n \in 0..(2 * MaxLimit) : do_search_fetch(n)
    \/ \E sc \in UNION {[1..n -> Scores] : n \in 0..(2 * MaxLimit)} :
          do_search_rerank(sc)
    \/ do_search_cut

SpecSearch == InitSearch /\ [][NextSearch]_vars

\* ------------------------------------------------------------------------
\* SpecScan: get_markdown_files on a directory tree
\* ------------------------------------------------------------------------

\* lines 57-65
EXCLUDE_PATTERNS ==
    {".git", ".obsidian", ".beads", ".claude", "node_modules", ".trash",
     ".txtai-index"}

\* the roots: absolute, resolved paths (get_vault_path resolves), as parts
Roots == {<<"/", "home", "vault">>, <<"/", "home", ".claude", "vault">>}

\* the directories under a root, relative to it, as parts
Dirs == {<<>>, <<"notes">>, <<".git">>, <<"notes", ".obsidian">>}

\* what is at d/a.md: nothing, a regular file, a symbolic link, a regular
\* file on which resolve raises OSError
EntryKinds == {"none", "file", "link", "unresolvable"}

\* the parts of a path, as a set
Parts(path) == {path[i] : i \in 1..Len(path)}

IsPrefix(p, q) == Len(p) <= Len(q) /\ SubSeq(q, 1, Len(p)) = p

\* md_file: rglob yields the root joined with the relative path
md_file(d) == vault_root \o d \o <<"a.md">>

\* the parts line 146 looks the excluded names up in
parts_relative(d) == Parts(d \o <<"a.md">>)

\* line 146: md_file.parts
parts(d) == Parts(md_file(d))

\* lines 138-148: whether the path rglob yielded is appended to files.
\* rglob does not descend into symbolic links, so the path of a regular file
\* resolves to the resolved root followed by its relative path
appended(d) ==
    /\ tree[d] # "link"
    /\ tree[d] # "unresolvable"
    /\ IsPrefix(vault_root, md_file(d))
    /\ \A excl \in EXCLUDE_PATTERNS : excl \notin parts(d)

\* lines 137-148: one turn of the loop over rglob("*.md")
rglob_next(d) ==
    /\ spc = "loop"
    /\ d \in pending
    /\ pending' = pending \ {d}
    /\ files' = IF appended(d) THEN files \cup {d} ELSE files
    /\ UNCHANGED <<spc, vault_root, tree>>
    /\ UNCHANGED <<idxVars, lifeVars, updVars, queryVars>>

\* line 149: return files
rglob_end ==
    /\ spc = "loop"
    /\ pending = {}
    /\ spc' = "done"
    /\ UNCHANGED <<vault_root, tree, pending, files>>
    /\ UNCHANGED <<idxVars, lifeVars, updVars, queryVars>>

\* get_markdown_files is called on a root and a tree under it
InitScan ==
    /\ IndexRest
    /\ Built
    /\ LifeRest
    /\ UpdateRest
    /\ QueryRest
    /\ spc = "loop"
    /\ vault_root \in Roots
    /\ tree \in [Dirs -> EntryKinds]
    /\ pending = {d \in Dirs : tree[d] # "none"}
    /\ files = {}

NextScan ==
    \/ \E d \in Dirs : rglob_next(d)
    \/ rglob_end

SpecScan == InitScan /\ [][NextScan]_vars

\* ------------------------------------------------------------------------
\* SpecServe: the request loop of a daemon and its clients
\* ------------------------------------------------------------------------

\* a daemon has loaded the snapshot of the vault and waits in accept
InitServe ==
    /\ disk = [f \in Files |-> NewFile]
    /\ vault = "ok"
    /\ Built
    /\ store = [p \in Builders |-> IF p = "daemon" THEN Files ELSE {}]
    /\ build = [p \in Builders |-> IdleBuild(NoResult)]
    /\ dpc = "accept"
    /\ conn = NoConn
    /\ since = 0
    /\ edits = 0
    /\ LifeRest
    /\ UpdateRest
    /\ PureRest

\* the steps the daemon takes on its own once it has a request or a timeout:
\* the builds, the response, the close
DaemonSteps ==
    \/ build_index_begin("daemon", TRUE)
    \/ build_index_file("daemon")
    \/ build_index_stat("daemon")
    \/ build_index_apply("daemon")
    \/ build_index_save("daemon")
    \/ build_index_savemeta("daemon")
    \/ serve_built
    \/ serve_send
    \/ serve_close

\* line 481, conn.recv(4096) on the accepted socket, which has no timeout
\* (only the listening socket has one, line 459): the call returns when the
\* client has sent its request r or closed the connection, and not before
NextServe ==
    \/ DaemonSteps
    \/ serve_accept
    \/ \E r \in Requests : serve_recv(r)
    \/ serve_timeout
    \/ \E f \in Files, st \in FileStates : edit_file(f, st)
    \/ \E v \in VaultStates : set_vault(v)

\* the daemon, a process of its own, goes on whenever it can; a client need
\* not ever send or close
SpecServe == InitServe /\ [][NextServe]_vars /\ WF_vars(DaemonSteps)

\* ------------------------------------------------------------------------
\* Claims on the index
\* ------------------------------------------------------------------------

NoBuildInProgress == \A p \in Builders : build[p].pc \in {"idle", "ret"}

\* C3: whenever no build is in progress, the keys of the persisted
\* change-tracking metadata are exactly the identifiers of the persisted
\* snapshot.
C3_SnapshotMetadataConsistent ==
    NoBuildInProgress => Keys(load_file_metadata) = snapshot.idx

\* a build is cut short: the command-line process is killed, or the
\* daemon's signal handler exits in the middle of an update
BuildInterrupted ==
    \/ cli_killed
    \/ (build["daemon"].pc \notin {"idle", "ret"} /\ daemon_signal)

\* C4: whatever point a build is interrupted at, the persisted metadata then
\* names no identifier that the persisted snapshot does not hold.
C4_MetadataWithinSnapshot ==
    [][BuildInterrupted =>
          (Keys(load_file_metadata) \subseteq snapshot.idx)']_vars

\* C5: every connection the loop closes has been sent exactly one response
\* (the client being there to receive it), whatever the request was.
C5_ExactlyOneResponse ==
    [][(dpc = "close" /\ dpc' = "accept" /\ ~conn.lost) => conn.resp = 1]_vars

\* C6: from inside the request loop the daemon goes nowhere but on in the
\* loop, unless a termination signal ends it: an update that returns or
\* raises is followed by the response or by closing the connection, a
\* periodic update that returns or raises by accept, closing a connection by
\* accept.
C6_LeavesLoopOnlyOnSignal ==
    [][/\ dpc \in ServeStates => dpc' \in ServeStates \cup {"down"}
       /\ (dpc = "close" /\ dpc' # dpc) => dpc' \in {"accept", "down"}
       /\ (dpc = "periodic" /\ dpc' # dpc) => dpc' \in {"accept", "down"}
       /\ (dpc = "update" /\ dpc' # dpc) =>
              dpc' \in {"send", "close", "down"}]_vars

\* a request that raised has been handled and the daemon is about to close
\* the connection and accept the next
C6_Witness ==
    /\ dpc = "close"
    /\ conn.req \in {"malformed", "nonobject", "noquery", "search", "update"}
    /\ conn.resp = 0

\* C10: in an incremental build a candidate whose mtime and size equal the
\* prior metadata is not extracted, not submitted to the Index Store, and
\* keeps its metadata entry.
C10_UnchangedSkipped ==
    \A p \in Builders : \A f \in build[p].unch :
        /\ f \notin build[p].extracted
        /\ f \notin build[p].submitted
        /\ build[p].docs[f] = NoDoc
        /\ build[p].new[f] = build[p].old[f]

\* an incremental build is about to save with one candidate skipped as
\* unchanged and another submitted
C10_Witness ==
    \E p \in Builders :
        /\ build[p].pc = "savemeta"
        /\ build[p].unch # {}
        /\ build[p].submitted # {}

\* ------------------------------------------------------------------------
\* Claims on the lifecycle
\* ------------------------------------------------------------------------

\* the daemon d is alive between its fork and the end of the request loop
StartingOrReady(d) == Starting(d) \/ Ready(d)

\* C1: of two concurrent start_daemon invocations at most one forks a
\* daemon; the other ends with "Daemon already running" or "Another process
\* is starting the daemon".
C1_StartLockExclusion ==
    \A s, t \in Starters :
        (s # t /\ dstate[s] # "none") =>
            /\ dstate[t] = "none"
            /\ pc[t] = "done" =>
                  msg[t] \in {"Daemon already running",
                              "Another process is starting the daemon"}

\* C2: at most one daemon process is alive in STARTING-after-fork or READY.
C2_AtMostOneDaemon ==
    \A d, e \in Pids :
        (d # e /\ StartingOrReady(d)) => ~StartingOrReady(e)

\* C7: once stop_daemon has reported "Daemon stopped", the daemon it
\* signalled is no longer serving.
C7_StoppedMeansNotServing ==
    msg[Stopper] = "Daemon stopped" => ~Ready(target)

\* the invocation c is at a call of daemon_running and makes it
Calls(c) ==
    pc[c] \in {"check", "confirm"} /\ pc'[c] \notin {pc[c], "pidread"}

\* C8: a call of daemon_running that finds no Process Record returns False
\* and changes nothing; one that finds a record that is unparsable or names
\* a pid with no live process returns False and leaves neither the record
\* nor the socket file; a call returns True only when the record names a
\* live process.
C8_DaemonRunningContract ==
    [][\A c \in Callers : Calls(c) =>
          /\ pidFile = NoFile =>
                /\ ret'[c] = "absent"
                /\ UNCHANGED <<pidFile, sockFile>>
          /\ (pidFile # NoFile /\ ~Alive(pidFile.content)) =>
                /\ ret'[c] = "stale"
                /\ pidFile' = NoFile
                /\ sockFile' = NoPid
          /\ ret'[c] = "alive" =>
                /\ pidFile # NoFile
                /\ Alive(pidFile.content)
                /\ UNCHANGED <<pidFile, sockFile>>]_vars

\* C9 as stated: whenever the Process Record names a live daemon, that
\* daemon's socket is bound and connectable.
C9_RecordImpliesBound ==
    \A d \in Pids :
        (pidFile.content = d /\ Alive(d)) => (sockFile = d /\ Listens(d))

\* C9: a daemon writes its Process Record before it binds its socket: at
\* the step that writes the record the daemon does not listen yet and the
\* socket file is not its own.
C9_RecordWrittenBeforeBind ==
    [][\A d \in Pids :
          (dstate[d] = "pidwrite" /\ dstate'[d] # dstate[d]) =>
              (~Listens(d) /\ sockFile # d)]_vars

\* the Process Record names a live daemon that still loads the snapshot:
\* no socket is bound
C9_Witness ==
    \E d \in Pids :
        /\ pidFile.content = d
        /\ dstate[d] = "load"
        /\ sockFile = NoPid

\* ------------------------------------------------------------------------
\* Claims on the builds
\* ------------------------------------------------------------------------

\* the previously indexed files (those of the persisted snapshot) that the
\* build of p did not find under the root
RemovedFiles(p) == snapshot.idx \ build[p].found

\* the incremental build of p is through its loop and decides what to do
Decides(p) ==
    /\ build[p].pc = "loop"
    /\ build[p].todo = {}
    /\ build[p].inc
    /\ build'[p].pc \in {"save", "ret"}

\* C11: an incremental build counts as deleted exactly the previously
\* indexed files that are gone from the root, and none of them is in the
\* Index Store afterwards.
C11_DeletionDetected ==
    [][\A p \in Builders : Decides(p) =>
          /\ deleted_files(build[p]) = RemovedFiles(p)
          /\ build'[p].pc = "save" => store'[p] \cap RemovedFiles(p) = {}
          /\ build'[p].pc = "ret" => RemovedFiles(p) = {}]_vars


\* C12: an incremental build that found no changed document and no deleted
\* file returns {changed: 0, deleted: 0} and leaves the Index Stores, the
\* persisted snapshot and the persisted metadata as they were.
C12_ShortCircuitFrame ==
    [][\A p \in Builders :
          (/\ Decides(p)
           /\ Keys(build[p].docs) = {}
           /\ deleted_files(build[p]) = {}) =>
              /\ build'[p].pc = "ret"
              /\ build'[p].res = Counts(0, 0)
              /\ UNCHANGED <<store, snapshot, metaFile>>]_vars

\* the daemon's update found nothing to do on a snapshot that holds documents
C12_Witness ==
    /\ build["daemon"].pc = "ret"
    /\ build["daemon"].res = Counts(0, 0)
    /\ store["daemon"] # {}
    /\ snapshot.idx = store["daemon"]
    /\ metaFile.kind = "v2"


\* ------------------------------------------------------------------------
\* Claims on the update command
\* ------------------------------------------------------------------------

\* the update command has ended
UpdateEnded == upc \in {"done", "raised"}

\* C13: an update command whose first update gets "unknown command" stops
\* the daemon, starts one and sends the update once more; after any other
\* failure of the first update it builds in the calling process; and every
\* update command ends with an incremental build run by the daemon or by
\* the caller.
C13_RouteUpdate ==
    UpdateEnded =>
       /\ first = "unknown" =>
             /\ Len(calls) >= 4
             /\ SubSeq(calls, 1, 4) = <<"update_via_daemon", "stop_daemon",
                                        "start_daemon", "update_via_daemon">>
             /\ \A i \in 5..Len(calls) : calls[i] # "update_via_daemon"
       /\ first \in {"none", "error"} =>
             calls = <<"update_via_daemon", "build_index">>
       /\ built # {}


\* ------------------------------------------------------------------------
\* Claims on search
\* ------------------------------------------------------------------------

\* C14: a search on an existing snapshot ends with results, from the daemon
\* or from the direct path; no failure on the way to the daemon reaches the
\* caller.
C14_SearchFallsBack ==
    pc[Client] = "done" => msg[Client] \in {"daemon", "direct"}


\* ------------------------------------------------------------------------
\* Claims on the daemon's builds
\* ------------------------------------------------------------------------

\* the daemon calls build_index and build_index returns at once
ReturnsAtOnce ==
    /\ build["daemon"].pc = "idle"
    /\ build'["daemon"].pc = "ret"

\* the request loop takes up what build_index returned
TakesUp ==
    /\ build["daemon"].pc = "ret"
    /\ build'["daemon"].pc = "idle"

\* C15: in the daemon a build without a usable root returns an error value
\* and changes neither the Index Store nor the snapshot nor the metadata; a
\* manual update is answered with status "error", and the daemon stays in
\* its request loop.
C15_RootErrorInDaemon ==
    [][/\ (ReturnsAtOnce /\ vault # "ok") =>
             /\ build'["daemon"].res = ErrorValue
             /\ UNCHANGED <<store, snapshot, metaFile, dpc>>
       /\ (TakesUp /\ build["daemon"].res = ErrorValue) =>
             /\ UNCHANGED <<store, snapshot, metaFile>>
             /\ dpc = "update" =>
                   (dpc' = "send" /\ conn'.body = "status_error")
             /\ dpc = "periodic" => dpc' = "accept"]_vars

\* a manual update on a root that is not usable is about to be answered
C15_Witness ==
    /\ vault # "ok"
    /\ dpc = "send"
    /\ conn.req = "update"
    /\ conn.body = "status_error"
    /\ store["daemon"] # {}


\* the daemon's build is through its loop and updates the Index Store
Applies ==
    /\ build["daemon"].pc = "loop"
    /\ build'["daemon"].pc = "save"

\* C16: a periodic build starts only at an accept timeout at which the
\* update interval has elapsed since the timer was reset, and resets the
\* timer there; it works on the daemon's Index Store; whatever the build
\* returns or raises, the loop of a daemon that is not stopped goes back to
\* accept without another reset;
\* and nothing but the start of a periodic build (or of a daemon) resets the
\* timer, so that two periodic builds are an interval apart.
C16_PeriodicTimer ==
    [][/\ (dpc # "periodic" /\ dpc' = "periodic") =>
             /\ dpc = "accept"
             /\ since + 1 >= IntervalTicks
             /\ since' = 0
       /\ (dpc = "periodic" /\ Applies) =>
             store'["daemon"] =
                delete(upsert(store["daemon"], build["daemon"].docs),
                       deleted_files(build["daemon"]))
       /\ (dpc = "periodic" /\ TakesUp /\ dpc' # "down") =>
             /\ dpc' = "accept"
             /\ since' >= since
       /\ since' < since => dpc' \in {"periodic", "down", "failed"}
                             \/ dpc \in {"down", "failed"}]_vars

\* a periodic build has raised; the timer was reset when it started
C16_Witness ==
    /\ dpc = "periodic"
    /\ build["daemon"].pc = "ret"
    /\ build["daemon"].res = Raised
    /\ since < IntervalTicks


\* the daemon's build returns counts
Updated ==
    /\ build["daemon"].pc \notin {"idle", "ret"}
    /\ build'["daemon"].pc = "ret"
    /\ build'["daemon"].res.k = "ok"

\* C17: a build in the command-line process leaves the Index Store of the
\* running daemon as it is, and once the daemon has made its next update the
\* daemon's Index Store holds the documents of the persisted snapshot whose
\* files that update found.
C17_DirectWriteVisible ==
    [][/\ build'["cli"] # build["cli"] =>
             store'["daemon"] = store["daemon"]
       /\ Updated =>
             \A f \in snapshot.idx \cap build["daemon"].found :
                f \in store'["daemon"]]_vars


\* ------------------------------------------------------------------------
\* Claims on do_search
\* ------------------------------------------------------------------------

\* the candidate a comes before the candidate b in the reranked order: its
\* score is higher, or the same and a was retrieved earlier
Before(a, b) ==
    \/ scores[a] > scores[b]
    \/ scores[a] = scores[b] /\ a < b

\* C18: do_search asks for 2*limit candidates with rerank and for limit
\* without, and returns at most limit results: with rerank and two
\* candidates or more, the first limit of them by descending score, equal
\* scores in retrieval order; otherwise the first limit in retrieval order.
C18_QueryResult ==
    qpc = "done" =>
       LET n == Len(results)
           k == Min(limit, n)
           R == {returned[i] : i \in 1..Len(returned)}
       IN /\ search_limit = IF rerank THEN 2 * limit ELSE limit
          /\ n <= search_limit
          /\ Len(returned) <= limit
          /\ IF rerank /\ n >= 2
             THEN /\ Len(returned) = k
                  /\ R \subseteq 1..n
                  /\ \A i, j \in 1..k :
                        i < j => Before(returned[i], returned[j])
                  /\ \A c \in (1..n) \ R : \A r \in R : Before(r, c)
             ELSE returned = SubSeq(results, 1, k)

\* four candidates were reranked for a limit of two; the two in the middle
\* share the highest score
C18_Witness ==
    /\ qpc = "done"
    /\ rerank
    /\ limit = 2
    /\ scores = <<1, 2, 2, 1>>
    /\ returned = <<2, 3>>


\* ------------------------------------------------------------------------
\* Claims on get_markdown_files
\* ------------------------------------------------------------------------

\* C19: the scan returns exactly the markdown files under the root that are
\* no symbolic links, resolve inside the root and have no excluded name in
\* their path relative to the root; the parts of the root's own path exclude
\* nothing.
C19_ScanExact ==
    spc = "done" =>
       files = {d \in Dirs :
                  /\ tree[d] = "file"
                  /\ \A excl \in EXCLUDE_PATTERNS :
                        excl \notin parts_relative(d)}


\* ------------------------------------------------------------------------
\* Claims on the start lock
\* ------------------------------------------------------------------------

\* the invocation s is turned away at the lock
Rejected(s) ==
    /\ pc[s] = "lock"
    /\ msg'[s] = "Another process is starting the daemon"

\* a start is in progress: an invocation holds the lock it took, or the
\* child it forked has not reached its request loop yet
StartInProgress(s) == InSequence(s) \/ Starting(s)

\* C20: the start lock is held only while a start is in progress, never
\* once the daemon is in its request loop and the invocation that started
\* it has ended, and an invocation is turned away with "Another process is
\* starting the daemon" only while another start is in progress.
C20_LockOnlyDuringStart ==
    [][/\ LockHeld' => \E s \in Starters : StartInProgress(s)'
       /\ \A s \in Starters :
             Rejected(s) => \E t \in Starters \ {s} : StartInProgress(t)]_vars


\* ------------------------------------------------------------------------
\* Claims on extraction
\* ------------------------------------------------------------------------

\* the build of p works at the file it is at
WorksAtFile(p) ==
    /\ build[p].pc \in {"loop", "stat"}
    /\ build[p].todo # {}
    /\ build'[p] # build[p]

\* the file the build of p is at cannot be read or decoded, or is gone, when
\* the loop comes to extract it; or it is gone when its metadata are taken
ExtractionFails(p) ==
    LET b == build[p]
        f == NextFile(b.todo)
    IN \/ /\ b.pc = "loop"
          /\ ~(b.inc /\ ~file_changed(disk[f], b.old[f]))
          /\ extract_document(disk[f]) = NoDoc
       \/ /\ b.pc = "stat"
          /\ disk[f] = Absent

\* C21: a changed file that cannot be read or decoded, or that vanishes
\* during the build, does not end the build: the loop goes on to the next
\* file, and the file gets no change-tracking entry and no document.
C21_ExtractionFailureNonFatal ==
    [][\A p \in Builders : (WorksAtFile(p) /\ ExtractionFails(p)) =>
          LET f == NextFile(build[p].todo)
          IN /\ build'[p].pc = "loop"
             /\ build'[p].todo = build[p].todo \ {f}
             /\ build'[p].new[f] = NoMeta]_vars


\* C22: the change-tracking entry a build records for a document it
\* extracted describes the version of the file that was read.
C22_EntryDescribesExtracted ==
    \A p \in Builders : \A f \in Files :
       (build[p].docs[f] # NoDoc /\ build[p].new[f] # NoMeta) =>
          build[p].new[f] = build[p].docs[f]


\* ------------------------------------------------------------------------
\* Claims on incremental builds
\* ------------------------------------------------------------------------

\* the identifiers a full build of the root as it is now would index
FullIndex == {f \in Files : extract_document(disk[f]) # NoDoc}

\* the metadata a full build of the root as it is now would save
FullMetadata ==
    [f \in Files |-> IF f \in FullIndex THEN get_file_metadata(disk[f])
                     ELSE NoMeta]

\* the root is as the build of p saw it: no file was added, changed or
\* removed since the build listed, checked and read the files
AsSeen(p) ==
    LET b == build[p]
    IN /\ b.found = get_markdown_files
       /\ \A f \in b.found :
             /\ b.new[f] # NoMeta => b.new[f] = get_file_metadata(disk[f])
             /\ f \in b.extracted => b.docs[f] = extract_document(disk[f])

\* the incremental build of p saves the metadata and returns
Saves(p) ==
    /\ build[p].pc = "savemeta"
    /\ build[p].inc
    /\ build'[p].pc = "ret"

\* the incremental build of p returns without an update
ShortCircuits(p) == Decides(p) /\ build'[p].pc = "ret"

\* C23: when an incremental build ends on a root that did not change while
\* it ran, the Index Store and the persisted metadata hold what a full build
\* of the root would have produced.
C23_IncrementalRefinesFull ==
    [][\A p \in Builders : AsSeen(p) =>
          /\ Saves(p) =>
                /\ store'[p] = FullIndex
                /\ snapshot'.idx = FullIndex
                /\ metaFile'.data = FullMetadata
          /\ ShortCircuits(p) =>
                /\ snapshot.idx = FullIndex
                /\ load_file_metadata = FullMetadata]_vars


\* ------------------------------------------------------------------------
\* Claims on the Process Record and the socket file
\* ------------------------------------------------------------------------

\* PID_FILE is the record of the daemon d: d created or opened it to write
\* its pid, or its pid is in it
RecordOf(d) ==
    /\ pidFile # NoFile
    /\ pidFile.content = d \/ pidFd[d] = pidFile.inode

\* C24: the Process Record and the socket file of a daemon that is alive
\* are removed by no process but the daemon itself, in its cleanup.
C24_RecordOwnership ==
    [][\A d \in Pids : Alive(d) =>
          /\ (RecordOf(d) /\ pidFile' = NoFile) => dstate[d] = "cleanup_pid"
          /\ (sockFile = d /\ sockFile' # d) => dstate[d] = "cleanup"]_vars


\* ------------------------------------------------------------------------
\* Claims on the request loop
\* ------------------------------------------------------------------------

\* C25: after every accepted connection the daemon gets back to accept,
\* whatever the client does.
C25_ServeProgress == (dpc = "recv") ~> (dpc = "accept")

=============================================================================
